---- MODULE Spec2Model ----
(***************************************************************************)
(* Smart-Split: the balance-netting / settlement-simplification engine     *)
(* (server/utils/graphAlgo.js) and the request handlers that call it       *)
(* (server/routes/expenseRoutes.js, server/routes/groupRoutes.js).         *)
(*                                                                         *)
(* Money.  The code computes in IEEE doubles; the model computes exactly,  *)
(* in integer units of 1/Cent of 0.01, where Cent is a common multiple of  *)
(* every divisor involvedIds.length can take, so amount / length is exact. *)
(* 0.01 (the tolerance of simplifyDebts) is Cent units.                    *)
(***************************************************************************)
EXTENDS Integers, Sequences, FiniteSets, TLC

\* ------------------------------------------------------------------ bounds
NumUsers == 3
MaxExpenses == 2
NumAccounts == 2
MaxInFlight == 2
MaxRequests == 3
NumSettleUsers == 5

Users == 1..NumUsers

RECURSIVE Gcd(_, _)
Gcd(a, b) == IF b = 0 THEN a ELSE Gcd(b, a % b)

RECURSIVE LcmUpTo(_)
LcmUpTo(n) == IF n <= 1 THEN 1 ELSE (LcmUpTo(n - 1) * n) \div Gcd(LcmUpTo(n - 1), n)

\* Longest list an amount is ever divided by in the model.
MaxInvolved ==
    IF NumUsers + MaxInFlight > NumSettleUsers THEN NumUsers + MaxInFlight ELSE NumSettleUsers

\* Units per 0.01.
Cent == LcmUpTo(MaxInvolved)

\* The literal 0.01 of simplifyDebts, in units.
Eps == Cent

\* Amounts a caller may pass, in 0.01s: negative, 0.03, 100.00, 300.00.
AmountCents == {-3, 3, 10000, 30000}

Amounts == {c * Cent : c \in AmountCents}

Abs(x) == IF x < 0 THEN -x ELSE x

Contains(list, x) == \E i \in 1..Len(list) : list[i] = x

Min(a, b) == IF a < b THEN a ELSE b

\* ------------------------------------------------------------------ engine
\* A NetBalance is the object `balances`: its entries in insertion order,
\* each [member, amount].

HasKey(balances, id) == \E i \in 1..Len(balances) : balances[i].member = id

Get(balances, id) == balances[CHOOSE i \in 1..Len(balances) : balances[i].member = id].amount

\* balances[id] += d, guarded by `balances[id] !== undefined`.
AddIfDefined(balances, id, d) ==
    [i \in 1..Len(balances) |->
        IF balances[i].member = id
        THEN [balances[i] EXCEPT !.amount = @ + d]
        ELSE balances[i]]

\* groupMembers.forEach(memberId => balances[memberId] = 0)
RECURSIVE InitBalances(_, _)
InitBalances(balances, groupMembers) ==
    IF groupMembers = <<>> THEN balances
    ELSE LET m == Head(groupMembers)
         IN InitBalances(IF HasKey(balances, m)
                         THEN AddIfDefined(balances, m, -Get(balances, m))
                         ELSE Append(balances, [member |-> m, amount |-> 0]),
                         Tail(groupMembers))

\* Mutant: an empty splitBetween is taken literally, as nobody.
involvedIdsOfLiteral(expense, groupMembers) == expense.splitBetween

involvedIdsOf(expense, groupMembers) ==
    IF Len(expense.splitBetween) > 0 THEN expense.splitBetween ELSE groupMembers

\* amount / involvedIds.length; with length 0 the quotient is +-Infinity or
\* NaN and is never used (the forEach over involvedIds has no element).
splitAmountOf(expense, groupMembers) ==
    LET n == Len(involvedIdsOf(expense, groupMembers))
    IN IF n = 0 THEN 0 ELSE expense.amount \div n

RECURSIVE DebitInvolved(_, _, _)
DebitInvolved(balances, involvedIds, splitAmount) ==
    IF involvedIds = <<>> THEN balances
    ELSE DebitInvolved(AddIfDefined(balances, Head(involvedIds), -splitAmount),
                       Tail(involvedIds), splitAmount)

\* Mutant: the payer's entry is set to the amount instead of increased by it.
ProcessExpenseAssign(balances, expense, groupMembers) ==
    DebitInvolved(IF HasKey(balances, expense.paidBy)
                  THEN AddIfDefined(balances, expense.paidBy,
                                    expense.amount - Get(balances, expense.paidBy))
                  ELSE balances,
                  involvedIdsOf(expense, groupMembers),
                  splitAmountOf(expense, groupMembers))

\* Mutant: a payer who is among the involved is credited and not debited.
ProcessExpensePayerExempt(balances, expense, groupMembers) ==
    DebitInvolved(AddIfDefined(balances, expense.paidBy, expense.amount),
                  SelectSeq(involvedIdsOf(expense, groupMembers),
                            LAMBDA id : id # expense.paidBy),
                  splitAmountOf(expense, groupMembers))

\* The body of expenses.forEach.
ProcessExpense(balances, expense, groupMembers) ==
    DebitInvolved(AddIfDefined(balances, expense.paidBy, expense.amount),
                  involvedIdsOf(expense, groupMembers),
                  splitAmountOf(expense, groupMembers))

RECURSIVE ProcessExpenses(_, _, _)
ProcessExpenses(balances, expenses, groupMembers) ==
    IF expenses = <<>> THEN balances
    ELSE ProcessExpenses(ProcessExpense(balances, Head(expenses), groupMembers),
                         Tail(expenses), groupMembers)

\* Mutant: only the members that appear in an expense get an entry.
calculateNetBalancesSparse(expenses, groupMembers) ==
    ProcessExpenses(
        InitBalances(<<>>, SelectSeq(groupMembers, LAMBDA m :
            \E i \in 1..Len(expenses) :
                \/ expenses[i].paidBy = m
                \/ Contains(involvedIdsOf(expenses[i], groupMembers), m))),
        expenses, groupMembers)

calculateNetBalances(expenses, groupMembers) ==
    ProcessExpenses(InitBalances(<<>>, groupMembers), expenses, groupMembers)

\* Array.prototype.sort is stable: insert x behind every element that does
\* not compare greater. sign = 1 sorts ascending by amount (a.amount -
\* b.amount), sign = -1 descending (b.amount - a.amount).
RECURSIVE InsertSorted(_, _, _)
InsertSorted(sorted, x, sign) ==
    IF sorted = <<>> THEN <<x>>
    ELSE IF sign * Head(sorted).amount <= sign * x.amount
         THEN <<Head(sorted)>> \o InsertSorted(Tail(sorted), x, sign)
         ELSE <<x>> \o sorted

RECURSIVE SortByAmount(_, _)
SortByAmount(list, sign) ==
    IF list = <<>> THEN <<>>
    ELSE InsertSorted(SortByAmount(SubSeq(list, 1, Len(list) - 1), sign),
                      list[Len(list)], sign)

\* Mutant: every entry outside the tolerance is collected as a giver.
IsGiverAbs(entry) == Abs(entry.amount) > Eps

\* Mutant: an entry of exactly -0.01 is collected as a giver.
IsGiverInclusive(entry) == entry.amount <= -Eps

IsGiver(entry) == entry.amount < -Eps

IsReceiver(entry) == entry.amount > Eps

\* Mutant: the amount is pushed as computed, without toFixed(2).
ToFixed2Omitted(x) == x

\* Number(x.toFixed(2)) for x >= 0: the nearest multiple of 0.01, half up.
ToFixed2(x) == ((2 * x + Cent) \div (2 * Cent)) * Cent

\* Mutant: the entries of the map itself are put in ascending order.
SimplifyStartSortsMap(netBalances) ==
    [netBalances |-> SortByAmount(netBalances, 1),
     warnings    |-> <<>>,
     givers      |-> SortByAmount(SelectSeq(netBalances, IsGiver), 1),
     receivers   |-> SortByAmount(SelectSeq(netBalances, IsReceiver), -1),
     results     |-> <<>>,
     giverIdx    |-> 0,
     receiverIdx |-> 0]

\* Mutant: the givers are sorted like the receivers, largest amount first.
SimplifyStartSmallestFirst(netBalances) ==
    [netBalances |-> netBalances,
     warnings    |-> <<>>,
     givers      |-> SortByAmount(SelectSeq(netBalances, IsGiver), -1),
     receivers   |-> SortByAmount(SelectSeq(netBalances, IsReceiver), -1),
     results     |-> <<>>,
     giverIdx    |-> 0,
     receiverIdx |-> 0]

\* Mutant: the entries are collected from the last key to the first, so
\* entries with equal amounts end up in reverse roster order.
SimplifyStartReversed(netBalances) ==
    LET reversed == [i \in 1..Len(netBalances) |-> netBalances[Len(netBalances) + 1 - i]]
    IN [netBalances |-> netBalances,
        warnings    |-> <<>>,
        givers      |-> SortByAmount(SelectSeq(reversed, IsGiver), 1),
        receivers   |-> SortByAmount(SelectSeq(reversed, IsReceiver), -1),
        results     |-> <<>>,
        giverIdx    |-> 0,
        receiverIdx |-> 0]

\* Lines 84-99: the state of simplifyDebts when it enters the loop. warnings
\* is what the call reports besides its return value (console, throw): no
\* statement of the function writes to it.
SimplifyStart(netBalances) ==
    [netBalances |-> netBalances,
     warnings    |-> <<>>,
     givers      |-> SortByAmount(SelectSeq(netBalances, IsGiver), 1),
     receivers   |-> SortByAmount(SelectSeq(netBalances, IsReceiver), -1),
     results     |-> <<>>,
     giverIdx    |-> 0,
     receiverIdx |-> 0]

LoopCondition(s) == s.giverIdx < Len(s.givers) /\ s.receiverIdx < Len(s.receivers)

\* Mutant: only half of the matched amount is settled per iteration.
MatchStepHalf(s) ==
    LET giver == s.givers[s.giverIdx + 1]
        receiver == s.receivers[s.receiverIdx + 1]
        amountToSettle == Min(Abs(giver.amount), receiver.amount) \div 2
        giverAfter == giver.amount + amountToSettle
        receiverAfter == receiver.amount - amountToSettle
    IN [s EXCEPT
          !.results = IF amountToSettle > Eps
                      THEN Append(@, [from |-> giver.member, to |-> receiver.member,
                                      amount |-> ToFixed2(amountToSettle)])
                      ELSE @,
          !.givers[s.giverIdx + 1].amount = giverAfter,
          !.receivers[s.receiverIdx + 1].amount = receiverAfter,
          !.giverIdx = IF Abs(giverAfter) < Eps THEN @ + 1 ELSE @,
          !.receiverIdx = IF receiverAfter < Eps THEN @ + 1 ELSE @]

\* Mutant: the edge names the giver at both ends.
MatchStepToGiver(s) ==
    LET giver == s.givers[s.giverIdx + 1]
        receiver == s.receivers[s.receiverIdx + 1]
        amountToSettle == Min(Abs(giver.amount), receiver.amount)
        giverAfter == giver.amount + amountToSettle
        receiverAfter == receiver.amount - amountToSettle
    IN [s EXCEPT
          !.results = IF amountToSettle > Eps
                      THEN Append(@, [from |-> giver.member, to |-> giver.member,
                                      amount |-> ToFixed2(amountToSettle)])
                      ELSE @,
          !.givers[s.giverIdx + 1].amount = giverAfter,
          !.receivers[s.receiverIdx + 1].amount = receiverAfter,
          !.giverIdx = IF Abs(giverAfter) < Eps THEN @ + 1 ELSE @,
          !.receiverIdx = IF receiverAfter < Eps THEN @ + 1 ELSE @]

\* Mutant: the settled amounts are written into the caller's map as well.
MatchStepInPlace(s) ==
    LET giver == s.givers[s.giverIdx + 1]
        receiver == s.receivers[s.receiverIdx + 1]
        amountToSettle == Min(Abs(giver.amount), receiver.amount)
        giverAfter == giver.amount + amountToSettle
        receiverAfter == receiver.amount - amountToSettle
    IN [s EXCEPT
          !.netBalances = AddIfDefined(AddIfDefined(@, giver.member, amountToSettle),
                                       receiver.member, -amountToSettle),
          !.results = IF amountToSettle > Eps
                      THEN Append(@, [from |-> giver.member, to |-> receiver.member,
                                      amount |-> ToFixed2(amountToSettle)])
                      ELSE @,
          !.givers[s.giverIdx + 1].amount = giverAfter,
          !.receivers[s.receiverIdx + 1].amount = receiverAfter,
          !.giverIdx = IF Abs(giverAfter) < Eps THEN @ + 1 ELSE @,
          !.receiverIdx = IF receiverAfter < Eps THEN @ + 1 ELSE @]

\* Mutant: the larger of the two magnitudes is settled.
MatchStepMax(s) ==
    LET giver == s.givers[s.giverIdx + 1]
        receiver == s.receivers[s.receiverIdx + 1]
        amountToSettle == IF Abs(giver.amount) > receiver.amount
                          THEN Abs(giver.amount) ELSE receiver.amount
        giverAfter == giver.amount + amountToSettle
        receiverAfter == receiver.amount - amountToSettle
    IN [s EXCEPT
          !.results = IF amountToSettle > Eps
                      THEN Append(@, [from |-> giver.member, to |-> receiver.member,
                                      amount |-> ToFixed2(amountToSettle)])
                      ELSE @,
          !.givers[s.giverIdx + 1].amount = giverAfter,
          !.receivers[s.receiverIdx + 1].amount = receiverAfter,
          !.giverIdx = IF Abs(giverAfter) < Eps THEN @ + 1 ELSE @,
          !.receiverIdx = IF receiverAfter < Eps THEN @ + 1 ELSE @]

\* Mutant: both indexes advance after every match.
MatchStepAdvanceBoth(s) ==
    LET giver == s.givers[s.giverIdx + 1]
        receiver == s.receivers[s.receiverIdx + 1]
        amountToSettle == Min(Abs(giver.amount), receiver.amount)
        giverAfter == giver.amount + amountToSettle
        receiverAfter == receiver.amount - amountToSettle
    IN [s EXCEPT
          !.results = IF amountToSettle > Eps
                      THEN Append(@, [from |-> giver.member, to |-> receiver.member,
                                      amount |-> ToFixed2(amountToSettle)])
                      ELSE @,
          !.givers[s.giverIdx + 1].amount = giverAfter,
          !.receivers[s.receiverIdx + 1].amount = receiverAfter,
          !.giverIdx = @ + 1,
          !.receiverIdx = @ + 1]

\* One iteration of the while loop (lines 103-120).
MatchStep(s) ==
    LET giver == s.givers[s.giverIdx + 1]
        receiver == s.receivers[s.receiverIdx + 1]
        amountToSettle == Min(Abs(giver.amount), receiver.amount)
        giverAfter == giver.amount + amountToSettle
        receiverAfter == receiver.amount - amountToSettle
    IN [s EXCEPT
          !.results = IF amountToSettle > Eps
                      THEN Append(@, [from |-> giver.member, to |-> receiver.member,
                                      amount |-> ToFixed2(amountToSettle)])
                      ELSE @,
          !.givers[s.giverIdx + 1].amount = giverAfter,
          !.receivers[s.receiverIdx + 1].amount = receiverAfter,
          !.giverIdx = IF Abs(giverAfter) < Eps THEN @ + 1 ELSE @,
          !.receiverIdx = IF receiverAfter < Eps THEN @ + 1 ELSE @]

RECURSIVE SimplifyLoop(_)
SimplifyLoop(s) == IF LoopCondition(s) THEN SimplifyLoop(MatchStep(s)) ELSE s

simplifyDebts(netBalances) == SimplifyLoop(SimplifyStart(netBalances)).results

\* ------------------------------------------------------------------ state
VARIABLES
    epc,          \* where the engine call stands: "off", "calc", "simplify", "loop", "done"
    argExpenses,  \* the expenses passed to calculateNetBalances
    argMembers,   \* the groupMembers passed to calculateNetBalances
    balances,     \* the object calculateNetBalances returned
    sd,           \* the locals of simplifyDebts (and the object it was passed)
    group,        \* the Group document: exists, creator, members, debts, v (__v)
    expenseDb,    \* the Expense collection of the group, in insertion order
    nextId,       \* number of Expense ids handed out
    inflight,     \* requests between two awaits
    nreq,         \* number of requests that reached their first await
    lastResp,     \* the response sent last (none once a new request is under way)
    prev,         \* the store as a create found it, while that create and the
                  \* delete of the same expense are the only requests since
    settled       \* the debt of the plan a settlement has been recorded for

engineVars == <<epc, argExpenses, argMembers, balances, sd, settled>>

serverVars == <<group, expenseDb, nextId, inflight, nreq, lastResp, prev>>

vars == <<epc, argExpenses, argMembers, balances, sd, settled,
          group, expenseDb, nextId, inflight, nreq, lastResp, prev>>

SeqsUpTo(S, n) == UNION {[1..k -> S] : k \in 0..n}

IsInjective(q) == \A i, j \in 1..Len(q) : i # j => q[i] # q[j]

IsAscending(q) == \A i, j \in 1..Len(q) : i < j => q[i] < q[j]

\* Member lists without repetition, in any order.
Rosters == {q \in SeqsUpTo(Users, NumUsers) : IsInjective(q)}

\* splitBetween lists: the order of a list does not enter the fold, so one
\* order per set is drawn.
Splits == {q \in SeqsUpTo(Users, NumUsers) : IsAscending(q)}

ExpenseInputs == [amount : Amounts, paidBy : Users, splitBetween : Splits]

NoSd == SimplifyStart(<<>>)

\* No debt is selected in the settle-up form.
NoEdge == [from |-> 0, to |-> 0, amount |-> 0]

NoGroup == [exists |-> FALSE, creator |-> 0, members |-> <<>>, debts |-> <<>>, v |-> 0]

NoPrev == [phase |-> "none", id |-> 0, debts |-> <<>>, expenses |-> <<>>, members |-> <<>>]

NoResp == [kind |-> "none", status |-> 0, err |-> "none", solo |-> TRUE]

ServerIdle ==
    /\ group = NoGroup
    /\ expenseDb = <<>>
    /\ nextId = 0
    /\ inflight = {}
    /\ nreq = 0
    /\ lastResp = NoResp
    /\ prev = NoPrev

EngineOff ==
    /\ epc = "off"
    /\ argMembers = <<>>
    /\ argExpenses = <<>>
    /\ balances = <<>>
    /\ sd = NoSd
    /\ settled = NoEdge

\* ------------------------------------------------------------------ engine calls
EngineInit ==
    /\ epc = "calc"
    /\ argMembers \in Rosters
    /\ argExpenses \in SeqsUpTo(ExpenseInputs, MaxExpenses)
    /\ balances = <<>>
    /\ sd = NoSd
    /\ settled = NoEdge
    /\ ServerIdle

\* const netBalances = calculateNetBalances(allExpenses, members)
CallCalculate ==
    /\ epc = "calc"
    /\ balances' = calculateNetBalances(argExpenses, argMembers)
    /\ epc' = "simplify"
    /\ UNCHANGED <<argExpenses, argMembers, sd, settled, serverVars>>

\* simplifyDebts(netBalances), up to the loop
CallSimplify ==
    /\ epc = "simplify"
    /\ sd' = SimplifyStart(balances)
    /\ epc' = "loop"
    /\ UNCHANGED <<argExpenses, argMembers, balances, settled, serverVars>>

\* one iteration of the matching loop; netBalances is the caller's object
LoopIteration ==
    /\ epc = "loop"
    /\ LoopCondition(sd)
    /\ sd' = MatchStep(sd)
    /\ balances' = sd'.netBalances
    /\ UNCHANGED <<epc, argExpenses, argMembers, settled, serverVars>>

\* return results
LoopExit ==
    /\ epc = "loop"
    /\ ~LoopCondition(sd)
    /\ epc' = "done"
    /\ UNCHANGED <<argExpenses, argMembers, balances, sd, settled, serverVars>>

EngineNext == CallCalculate \/ CallSimplify \/ LoopIteration \/ LoopExit

SpecEngine == EngineInit /\ [][EngineNext]_vars

\* ------------------------------------------------------------------ settle up
\* A group of NumSettleUsers members.
SettleMembers == [i \in 1..NumSettleUsers |-> i]

\* Expenses of 100.00 or 300.00, paid by any member and split between
\* everyone or between the first two members.
SettleExpenseInputs ==
    [amount : {10000 * Cent, 30000 * Cent},
     paidBy : 1..NumSettleUsers,
     splitBetween : {<<>>, <<1, 2>>}]

SettleInit ==
    /\ epc = "calc"
    /\ argMembers = SettleMembers
    /\ argExpenses \in SeqsUpTo(SettleExpenseInputs, MaxExpenses)
    /\ balances = <<>>
    /\ sd = NoSd
    /\ settled = NoEdge
    /\ ServerIdle

\* The payload of handleSubmit for the debt `edge`, with the amount the form
\* takes from the debt: in PAY mode the current user is edge.from, in RECEIVE
\* mode the target user is, and in both the expense is paid by edge.from and
\* split between edge.to alone.
SettlementPayload(edge) ==
    [amount |-> edge.amount, paidBy |-> edge.from, splitBetween |-> <<edge.to>>]

\* handleSubmit for the k-th debt of the plan: the expense is posted and the
\* handler computes the plan again from all expenses.
RecordSettlement(k) ==
    /\ epc = "done"
    /\ settled = NoEdge
    /\ k \in 1..Len(sd.results)
    /\ settled' = sd.results[k]
    /\ argExpenses' = Append(argExpenses, SettlementPayload(sd.results[k]))
    /\ epc' = "calc"
    /\ balances' = <<>>
    /\ sd' = NoSd
    /\ UNCHANGED <<argMembers, serverVars>>

SettleNext ==
    \/ CallCalculate
    \/ CallSimplify
    \/ LoopIteration
    \/ LoopExit
    \/ \E k \in 1..NumSettleUsers : RecordSettlement(k)

SpecSettle == SettleInit /\ [][SettleNext]_vars

\* ------------------------------------------------------------------ doubles
\* simplifyDebts on IEEE doubles that need not be finite. A sum of finite
\* amounts beyond 1.797e308 is +-Infinity, and Infinity - Infinity is NaN. A
\* double is [k, v]: a finite value of v units, an infinity of sign v, or NaN.
Fin(n) == [k |-> "fin", v |-> n]

PosInf == [k |-> "inf", v |-> 1]

NegInf == [k |-> "inf", v |-> -1]

NaN == [k |-> "nan", v |-> 0]

DblNeg(x) == IF x.k = "nan" THEN NaN ELSE [x EXCEPT !.v = -@]

\* x + y
DblAdd(x, y) ==
    IF x.k = "nan" \/ y.k = "nan" THEN NaN
    ELSE IF x.k = "inf" /\ y.k = "inf" THEN (IF x.v = y.v THEN x ELSE NaN)
    ELSE IF x.k = "inf" THEN x
    ELSE IF y.k = "inf" THEN y
    ELSE Fin(x.v + y.v)

\* x - y
DblSub(x, y) == DblAdd(x, DblNeg(y))

\* x < y: false when either is NaN
DblLess(x, y) ==
    IF x.k = "nan" \/ y.k = "nan" THEN FALSE
    ELSE IF x.k = "fin" /\ y.k = "fin" THEN x.v < y.v
    ELSE IF x.k = "inf" THEN x.v = -1 /\ y # NegInf
    ELSE y.v = 1

\* Math.abs(x)
DblAbs(x) ==
    IF x.k = "nan" THEN NaN
    ELSE IF x.k = "inf" THEN PosInf
    ELSE Fin(Abs(x.v))

\* Math.min(x, y): NaN when either is NaN
DblMin(x, y) ==
    IF x.k = "nan" \/ y.k = "nan" THEN NaN
    ELSE IF DblLess(y, x) THEN y ELSE x

\* Number(x.toFixed(2)): (Infinity).toFixed(2) is "Infinity"
DblToFixed2(x) == IF x.k = "fin" THEN Fin(ToFixed2(x.v)) ELSE x

DblIsGiver(entry) == DblLess(entry.amount, Fin(-Eps))

DblIsReceiver(entry) == DblLess(Fin(Eps), entry.amount)

\* The comparator's value for (a, b): a.amount - b.amount for the givers
\* (sign = 1), b.amount - a.amount for the receivers (sign = -1).
DblCompare(a, b, sign) ==
    IF sign = 1 THEN DblSub(a.amount, b.amount) ELSE DblSub(b.amount, a.amount)

\* x goes in front of an element only when the comparator is > 0 for
\* (element, x); a NaN comparator value counts as 0.
RECURSIVE DblInsertSorted(_, _, _)
DblInsertSorted(sorted, x, sign) ==
    IF sorted = <<>> THEN <<x>>
    ELSE IF DblLess(Fin(0), DblCompare(Head(sorted), x, sign))
         THEN <<x>> \o sorted
         ELSE <<Head(sorted)>> \o DblInsertSorted(Tail(sorted), x, sign)

RECURSIVE DblSortByAmount(_, _)
DblSortByAmount(list, sign) ==
    IF list = <<>> THEN <<>>
    ELSE DblInsertSorted(DblSortByAmount(SubSeq(list, 1, Len(list) - 1), sign),
                         list[Len(list)], sign)

\* Lines 84-99.
DblSimplifyStart(netBalances) ==
    [netBalances |-> netBalances,
     warnings    |-> <<>>,
     givers      |-> DblSortByAmount(SelectSeq(netBalances, DblIsGiver), 1),
     receivers   |-> DblSortByAmount(SelectSeq(netBalances, DblIsReceiver), -1),
     results     |-> <<>>,
     giverIdx    |-> 0,
     receiverIdx |-> 0]

\* Lines 103-120.
DblMatchStep(s) ==
    LET giver == s.givers[s.giverIdx + 1]
        receiver == s.receivers[s.receiverIdx + 1]
        amountToSettle == DblMin(DblAbs(giver.amount), receiver.amount)
        giverAfter == DblAdd(giver.amount, amountToSettle)
        receiverAfter == DblSub(receiver.amount, amountToSettle)
    IN [s EXCEPT
          !.results = IF DblLess(Fin(Eps), amountToSettle)
                      THEN Append(@, [from |-> giver.member, to |-> receiver.member,
                                      amount |-> DblToFixed2(amountToSettle)])
                      ELSE @,
          !.givers[s.giverIdx + 1].amount = giverAfter,
          !.receivers[s.receiverIdx + 1].amount = receiverAfter,
          !.giverIdx = IF DblLess(DblAbs(giverAfter), Fin(Eps)) THEN @ + 1 ELSE @,
          !.receiverIdx = IF DblLess(receiverAfter, Fin(Eps)) THEN @ + 1 ELSE @]

\* Entries a map of doubles may hold: -Infinity, -300.00, -100.00, 0, 100.00,
\* 300.00, +Infinity, NaN.
DblValues ==
    {NegInf, PosInf, NaN} \cup {Fin(c * Cent) : c \in {-30000, -10000, 0, 10000, 30000}}

\* The maps with one entry for each of the NumUsers members.
DblMaps ==
    {[i \in 1..NumUsers |-> [member |-> i, amount |-> f[i]]] : f \in [1..NumUsers -> DblValues]}

DblInit ==
    /\ epc = "simplify"
    /\ balances \in DblMaps
    /\ argMembers = [i \in 1..NumUsers |-> i]
    /\ argExpenses = <<>>
    /\ sd = NoSd
    /\ settled = NoEdge
    /\ ServerIdle

DblCallSimplify ==
    /\ epc = "simplify"
    /\ sd' = DblSimplifyStart(balances)
    /\ epc' = "loop"
    /\ UNCHANGED <<argExpenses, argMembers, balances, settled, serverVars>>

DblLoopIteration ==
    /\ epc = "loop"
    /\ LoopCondition(sd)
    /\ sd' = DblMatchStep(sd)
    /\ UNCHANGED <<epc, argExpenses, argMembers, balances, settled, serverVars>>

DblLoopExit ==
    /\ epc = "loop"
    /\ ~LoopCondition(sd)
    /\ epc' = "done"
    /\ UNCHANGED <<argExpenses, argMembers, balances, sd, settled, serverVars>>

DblNext == DblCallSimplify \/ DblLoopIteration \/ DblLoopExit

SpecDoubles == DblInit /\ [][DblNext]_vars

\* ------------------------------------------------------------------ server
Accounts == 1..NumAccounts

\* req.body.paidBy absent
NoUser == 0

\* req.body.amount, in 0.01s
PostAmountCents == {-30000, 0, 30000}

PostAmounts == {c * Cent : c \in PostAmountCents}

\* req.body.paidBy: absent, or the account of user 2
PostPayers == {NoUser, 2}

\* req.body.splitBetween: absent or empty (everyone), or user 2 alone
PostSplits == {<<>>, <<2>>}

Without(list, x) == SelectSeq(list, LAMBDA y : y # x)

GroupExpenses(db) == [i \in 1..Len(db) |-> [amount |-> db[i].amount, paidBy |-> db[i].paidBy,
                                            splitBetween |-> db[i].splitBetween]]

\* Steps B and C of the handlers.
Plan(allExpenses, members) == simplifyDebts(calculateNetBalances(GroupExpenses(allExpenses), members))

\* The document a handler holds after Group.findById.
Snapshot == [members |-> group.members, debts |-> group.debts, creator |-> group.creator, v |-> group.v]

CanStart == Cardinality(inflight) < MaxInFlight /\ nreq < MaxRequests

\* A request reaches its first await: it and every request under way overlap.
Admit(r) ==
    /\ inflight' = {[q EXCEPT !.solo = FALSE] : q \in inflight}
                     \cup {[r EXCEPT !.solo = (inflight = {})]}
    /\ nreq' = nreq + 1
    /\ lastResp' = NoResp
    /\ prev' = IF r.kind = "post" /\ inflight = {}
               THEN [phase |-> "posting", id |-> r.body.id, debts |-> group.debts,
                     expenses |-> expenseDb, members |-> group.members]
               ELSE IF /\ r.kind = "delete" /\ inflight = {}
                       /\ prev.phase = "posted" /\ r.expense = prev.id
                    THEN [prev EXCEPT !.phase = "deleting"]
                    ELSE NoPrev

Respond(r, status, err) ==
    /\ inflight' = inflight \ {r}
    /\ lastResp' = [kind |-> r.kind, status |-> status, err |-> err, solo |-> r.solo]
    /\ prev' = IF prev.phase = "posting" /\ r.kind = "post" /\ status = 201 /\ r.solo
               THEN [prev EXCEPT !.phase = "posted"]
               ELSE IF prev.phase = "deleting" /\ r.kind = "delete" /\ status = 200 /\ r.solo
                    THEN [prev EXCEPT !.phase = "undone"]
                    ELSE NoPrev

Reject(kind, status) ==
    /\ inflight = {}
    /\ lastResp' = [kind |-> kind, status |-> status, err |-> "none", solo |-> TRUE]
    /\ UNCHANGED <<group, expenseDb, nextId, inflight, nreq, prev>>
    /\ UNCHANGED engineVars

NewRequest(kind, user) ==
    [rid |-> nreq + 1, kind |-> kind, pc |-> "start", user |-> user, solo |-> TRUE,
     groupData |-> Snapshot, allExpenses |-> <<>>, expense |-> 0, body |-> <<>>]

\* group.save() of a document whose array path was assigned ($set of an array):
\* mongoose sends the update with the __v it loaded and increments __v; a
\* document another save has versioned since fails with VersionError.
VersionMatches(r) == group.v = r.groupData.v

\* POST /api/groups
CreateGroup(user) ==
    /\ ~group.exists
    /\ group' = [exists |-> TRUE, creator |-> user, members |-> <<user>>, debts |-> <<>>, v |-> 0]
    /\ lastResp' = [kind |-> "createGroup", status |-> 201, err |-> "none", solo |-> TRUE]
    /\ UNCHANGED <<expenseDb, nextId, inflight, nreq, prev>>
    /\ UNCHANGED engineVars

\* POST /api/expenses, lines 13-47: validation, Group.findById, membership
PostRejected(user, amount) ==
    /\ \/ amount = 0 /\ Reject("post", 400)
       \/ amount # 0 /\ ~group.exists /\ Reject("post", 404)
       \/ amount # 0 /\ group.exists /\ ~Contains(group.members, user) /\ Reject("post", 401)

PostStart(user, amount, paidBy, splitBetween) ==
    /\ amount # 0
    /\ group.exists
    /\ Contains(group.members, user)
    /\ CanStart
    /\ nextId < MaxExpenses
    /\ nextId' = nextId + 1
    /\ Admit([NewRequest("post", user) EXCEPT
                !.body = [id |-> nextId + 1, amount |-> amount,
                          paidBy |-> IF paidBy = NoUser THEN user ELSE paidBy,
                          splitBetween |-> splitBetween],
                !.pc = "save"])
    /\ UNCHANGED <<group, expenseDb>>
    /\ UNCHANGED engineVars

\* line 49: await newExpense.save()
PostSave(r) ==
    /\ r.kind = "post" /\ r.pc = "save"
    /\ expenseDb' = Append(expenseDb, r.body)
    /\ inflight' = (inflight \ {r}) \cup {[r EXCEPT !.pc = "find"]}
    /\ UNCHANGED <<group, nextId, nreq, lastResp, prev>>
    /\ UNCHANGED engineVars

\* Mutant: the plan is computed from a list fetched before the mutation.
FindStale(r) ==
    /\ r.kind \in {"post", "delete"} /\ r.pc = "find"
    /\ inflight' = (inflight \ {r}) \cup {[r EXCEPT !.pc = "saveGroup"]}
    /\ UNCHANGED <<group, expenseDb, nextId, nreq, lastResp, prev>>
    /\ UNCHANGED engineVars

\* Mutant: the group is loaded again after the mutation, so the roster passed
\* to the engine is the one stored then.
FindReload(r) ==
    /\ r.kind \in {"post", "delete"} /\ r.pc = "find"
    /\ inflight' = (inflight \ {r}) \cup
                      {[r EXCEPT !.pc = "saveGroup", !.allExpenses = expenseDb,
                                 !.groupData = Snapshot]}
    /\ UNCHANGED <<group, expenseDb, nextId, nreq, lastResp, prev>>
    /\ UNCHANGED engineVars

\* line 54 / line 119: await Expense.find({ group })
Find(r) ==
    /\ r.kind \in {"post", "delete"} /\ r.pc = "find"
    /\ inflight' = (inflight \ {r}) \cup {[r EXCEPT !.pc = "saveGroup", !.allExpenses = expenseDb]}
    /\ UNCHANGED <<group, expenseDb, nextId, nreq, lastResp, prev>>
    /\ UNCHANGED engineVars

\* Mutant: the new edges are added to the stored list instead of replacing it.
SaveDebtsAppend(r) ==
    /\ r.kind \in {"post", "delete"} /\ r.pc = "saveGroup"
    /\ LET simplifiedDebts == Plan(r.allExpenses, r.groupData.members)
           ok == IF r.kind = "post" THEN 201 ELSE 200
       IN IF simplifiedDebts = <<>>
          THEN /\ Respond(r, ok, "none")
               /\ UNCHANGED group
          ELSE IF VersionMatches(r)
               THEN /\ group' = [group EXCEPT !.debts = r.groupData.debts \o simplifiedDebts,
                                              !.v = @ + 1]
                    /\ Respond(r, ok, "none")
               ELSE /\ Respond(r, 500, "VersionError")
                    /\ UNCHANGED group
    /\ UNCHANGED <<expenseDb, nextId, nreq>>
    /\ UNCHANGED engineVars

\* lines 57-66 / 120-126: recompute, groupData.debts = simplifiedDebts, save
SaveDebts(r) ==
    /\ r.kind \in {"post", "delete"} /\ r.pc = "saveGroup"
    /\ LET simplifiedDebts == Plan(r.allExpenses, r.groupData.members)
           ok == IF r.kind = "post" THEN 201 ELSE 200
       IN IF simplifiedDebts = <<>> /\ r.groupData.debts = <<>>
          THEN \* nothing modified: save() sends no update
               /\ Respond(r, ok, "none")
               /\ UNCHANGED group
          ELSE IF VersionMatches(r)
               THEN /\ group' = [group EXCEPT !.debts = simplifiedDebts, !.v = @ + 1]
                    /\ Respond(r, ok, "none")
               ELSE /\ Respond(r, 500, "VersionError")
                    /\ UNCHANGED group
    /\ UNCHANGED <<expenseDb, nextId, nreq>>
    /\ UNCHANGED engineVars

\* DELETE /api/expenses/:id, line 101: Expense.findById
DeleteRejected(id) ==
    /\ ~(\E i \in 1..Len(expenseDb) : expenseDb[i].id = id)
    /\ Reject("delete", 404)

DeleteStart(user, id) ==
    /\ \E i \in 1..Len(expenseDb) : expenseDb[i].id = id
    /\ CanStart
    /\ Admit([NewRequest("delete", user) EXCEPT !.expense = id, !.pc = "loadGroup"])
    /\ UNCHANGED <<group, expenseDb, nextId>>
    /\ UNCHANGED engineVars

\* Mutant: the delete handler does not look at the members.
DeleteLoadGroupOpen(r) ==
    /\ r.kind = "delete" /\ r.pc = "loadGroup"
    /\ inflight' = (inflight \ {r}) \cup {[r EXCEPT !.pc = "deleteOne", !.groupData = Snapshot]}
    /\ UNCHANGED <<lastResp, prev>>
    /\ UNCHANGED <<group, expenseDb, nextId, nreq>>
    /\ UNCHANGED engineVars

\* lines 110-113: Group.findById, membership
DeleteLoadGroup(r) ==
    /\ r.kind = "delete" /\ r.pc = "loadGroup"
    /\ IF Contains(group.members, r.user)
       THEN /\ inflight' = (inflight \ {r}) \cup {[r EXCEPT !.pc = "deleteOne", !.groupData = Snapshot]}
            /\ UNCHANGED <<lastResp, prev>>
       ELSE Respond(r, 401, "none")
    /\ UNCHANGED <<group, expenseDb, nextId, nreq>>
    /\ UNCHANGED engineVars

\* line 116: await expense.deleteOne()
DeleteOne(r) ==
    /\ r.kind = "delete" /\ r.pc = "deleteOne"
    /\ expenseDb' = SelectSeq(expenseDb, LAMBDA e : e.id # r.expense)
    /\ inflight' = (inflight \ {r}) \cup {[r EXCEPT !.pc = "find"]}
    /\ UNCHANGED <<group, nextId, nreq, lastResp, prev>>
    /\ UNCHANGED engineVars

\* PUT /api/groups/addMember, lines 46-61
AddMemberRejected(user, userToAdd) ==
    \/ ~group.exists /\ Reject("addMember", 404)
    \/ group.exists /\ group.creator # user /\ Reject("addMember", 401)
    \/ group.exists /\ group.creator = user /\ Contains(group.members, userToAdd)
         /\ Reject("addMember", 400)

AddMemberStart(user, userToAdd) ==
    /\ group.exists
    /\ group.creator = user
    /\ ~Contains(group.members, userToAdd)
    /\ CanStart
    /\ Admit([NewRequest("addMember", user) EXCEPT !.body = userToAdd, !.pc = "saveGroup"])
    /\ UNCHANGED <<group, expenseDb, nextId>>
    /\ UNCHANGED engineVars

\* lines 64-72: members.push(id) is saved as a $push, which increments __v
\* and does not compare it
AddMemberSave(r) ==
    /\ r.kind = "addMember" /\ r.pc = "saveGroup"
    /\ group' = [group EXCEPT !.members = Append(@, r.body), !.v = @ + 1]
    /\ Respond(r, 200, "none")
    /\ UNCHANGED <<expenseDb, nextId, nreq>>
    /\ UNCHANGED engineVars

\* PUT /api/groups/leaveGroup, lines 86-87
LeaveRejected ==
    /\ ~group.exists
    /\ Reject("leaveGroup", 404)

LeaveStart(user) ==
    /\ group.exists
    /\ CanStart
    /\ Admit([NewRequest("leaveGroup", user) EXCEPT !.pc = "saveGroup"])
    /\ UNCHANGED <<group, expenseDb, nextId>>
    /\ UNCHANGED engineVars

\* lines 90-106: filter, admin transfer, group.members = remainingMembers, save
LeaveSave(r) ==
    /\ r.kind = "leaveGroup" /\ r.pc = "saveGroup"
    /\ LET remainingMembers == Without(r.groupData.members, r.user)
           creator == IF r.groupData.creator = r.user /\ Len(remainingMembers) > 0
                      THEN remainingMembers[1] ELSE r.groupData.creator
       IN IF remainingMembers = r.groupData.members /\ creator = r.groupData.creator
          THEN \* nothing modified
               /\ Respond(r, 200, "none")
               /\ UNCHANGED group
          ELSE IF VersionMatches(r)
               THEN /\ group' = [group EXCEPT !.members = remainingMembers,
                                              !.creator = creator, !.v = @ + 1]
                    /\ Respond(r, 200, "none")
               ELSE /\ Respond(r, 500, "VersionError")
                    /\ UNCHANGED group
    /\ UNCHANGED <<expenseDb, nextId, nreq>>
    /\ UNCHANGED engineVars

\* an await of a handler rejects (the database is unreachable): catch, 500
DbError(r) ==
    /\ Respond(r, 500, "DbError")
    /\ UNCHANGED <<group, expenseDb, nextId, nreq>>
    /\ UNCHANGED engineVars

Init == ServerIdle /\ EngineOff

Next ==
    \/ \E user \in Accounts : CreateGroup(user)
    \/ \E user \in Accounts, amount \in PostAmounts : PostRejected(user, amount)
    \/ \E user \in Accounts, amount \in PostAmounts, paidBy \in PostPayers,
          splitBetween \in PostSplits : PostStart(user, amount, paidBy, splitBetween)
    \/ \E id \in 1..MaxExpenses : DeleteRejected(id)
    \/ \E user \in Accounts, id \in 1..MaxExpenses : DeleteStart(user, id)
    \/ \E user \in Accounts, userToAdd \in Accounts : AddMemberRejected(user, userToAdd)
    \/ \E user \in Accounts, userToAdd \in Accounts : AddMemberStart(user, userToAdd)
    \/ LeaveRejected
    \/ \E user \in Accounts : LeaveStart(user)
    \/ \E r \in inflight : PostSave(r)
    \/ \E r \in inflight : Find(r)
    \/ \E r \in inflight : SaveDebts(r)
    \/ \E r \in inflight : DeleteLoadGroup(r)
    \/ \E r \in inflight : DeleteOne(r)
    \/ \E r \in inflight : AddMemberSave(r)
    \/ \E r \in inflight : LeaveSave(r)
    \/ \E r \in inflight : DbError(r)

Spec == Init /\ [][Next]_vars

\* Expense mutations alone, on a group of two members: no membership request,
\* no database failure.
MutationsInit ==
    /\ EngineOff
    /\ group = [exists |-> TRUE, creator |-> 1, members |-> <<1, 2>>, debts |-> <<>>, v |-> 1]
    /\ expenseDb = <<>>
    /\ nextId = 0
    /\ inflight = {}
    /\ nreq = 0
    /\ lastResp = NoResp
    /\ prev = NoPrev

MutationsNext ==
    \/ \E user \in Accounts, amount \in PostAmounts : PostRejected(user, amount)
    \/ \E user \in Accounts, amount \in PostAmounts, paidBy \in PostPayers,
          splitBetween \in PostSplits : PostStart(user, amount, paidBy, splitBetween)
    \/ \E id \in 1..MaxExpenses : DeleteRejected(id)
    \/ \E user \in Accounts, id \in 1..MaxExpenses : DeleteStart(user, id)
    \/ \E r \in inflight : PostSave(r)
    \/ \E r \in inflight : Find(r)
    \/ \E r \in inflight : SaveDebts(r)
    \/ \E r \in inflight : DeleteLoadGroup(r)
    \/ \E r \in inflight : DeleteOne(r)

SpecMutations == MutationsInit /\ [][MutationsNext]_vars

\* ------------------------------------------------------------------ properties
RECURSIVE SumAmounts(_)
SumAmounts(list) == IF list = <<>> THEN 0 ELSE Head(list).amount + SumAmounts(Tail(list))

Paid(results, m) == SumAmounts(SelectSeq(results, LAMBDA e : e.from = m))

Received(results, m) == SumAmounts(SelectSeq(results, LAMBDA e : e.to = m))

\* The balance of entry i once every edge is applied to the original map.
Adjusted(netBalances, results, i) ==
    netBalances[i].amount + Paid(results, netBalances[i].member)
                          - Received(results, netBalances[i].member)

Debtors == SelectSeq(balances, IsGiver)

Creditors == SelectSeq(balances, IsReceiver)

Max(a, b) == IF a > b THEN a ELSE b

PlanOfStore == simplifyDebts(calculateNetBalances(GroupExpenses(expenseDb), group.members))

\* Every payer and every beneficiary is a member, every amount is positive.
OnRoster(expenses, members) ==
    \A i \in 1..Len(expenses) :
        /\ expenses[i].amount > 0
        /\ Contains(members, expenses[i].paidBy)
        /\ \A k \in 1..Len(expenses[i].splitBetween) :
              Contains(members, expenses[i].splitBetween[k])

\* C1 (as claimed, for expenses whose payers and beneficiaries are all
\* members): when simplifyDebts has returned, applying its edges to the map
\* calculateNetBalances produced (from += amount, to -= amount) leaves
\* every participant within 0.01 of zero.
SettlementCorrectness ==
    (epc = "done" /\ OnRoster(argExpenses, argMembers)) =>
        \A i \in 1..Len(balances) : Abs(Adjusted(balances, sd.results, i)) <= Eps

\* C2 (as claimed): the entries calculateNetBalances returns sum to zero
\* within 0.01, whatever the roster and the (positive) expenses.
BalanceConservation ==
    (epc = "simplify" /\ \A i \in 1..Len(argExpenses) : argExpenses[i].amount > 0)
        => Abs(SumAmounts(balances)) <= Eps

\* C3: when a create or delete of an expense that overlapped no other request
\* has answered 201 / 200, the stored debts are simplifyDebts of
\* calculateNetBalances of the stored expenses and the stored members.
PlanFollowsMutation ==
    (lastResp.kind \in {"post", "delete"} /\ lastResp.status \in {200, 201} /\ lastResp.solo)
        => group.debts = PlanOfStore

\* C3 witness: a non-overlapped delete answered 200 and its save replaced the
\* non-empty plan of a two-member group (third write of the document) by the
\* empty plan of the now empty expense list.
PlanFollowsMutationReached ==
    /\ lastResp.kind = "delete" /\ lastResp.status = 200 /\ lastResp.solo
    /\ Len(group.members) = 2
    /\ group.v = 3
    /\ group.debts = <<>>
    /\ expenseDb = <<>>

\* C4 (as claimed, for stores of positive amounts): once the overlapping
\* create / delete requests have all completed, the stored plan is the plan
\* of the expenses then stored.
OverlapEndsConsistent ==
    (inflight = {} /\ \A i \in 1..Len(expenseDb) : expenseDb[i].amount > 0)
        => group.debts = PlanOfStore

\* An addMember or leaveGroup that overlapped no other request answers 200.
RosterChangeAnswered ==
    /\ \E r \in inflight : r.kind \in {"addMember", "leaveGroup"} /\ r.solo
    /\ lastResp'.kind \in {"addMember", "leaveGroup"}
    /\ lastResp'.status = 200

\* C5 (as claimed): a step in which addMember or leaveGroup answers 200, taken
\* from a state whose stored plan is the engine's result, ends in a state whose
\* stored plan is the engine's result for the stored expenses and the new roster.
RosterChangeRecomputes ==
    [][(RosterChangeAnswered /\ group.debts = PlanOfStore) => (group.debts = PlanOfStore)']_vars

\* C6 (as claimed): simplifyDebts emits at most debtors + creditors - 1 edges.
EdgeCountBound ==
    epc = "done" => Len(sd.results) <= Len(Debtors) + Len(Creditors) - 1

\* C6 (amended): at most max(0, debtors + creditors - 1) edges are emitted,
\* at every point of the loop.
EdgeCountBoundAmended ==
    epc \in {"loop", "done"} =>
        Len(sd.results) <= Max(0, Len(Debtors) + Len(Creditors) - 1)

\* C6 witness: the bound is met with two edges.
EdgeCountBoundTight ==
    /\ epc = "done"
    /\ Len(sd.results) = 2
    /\ Len(Debtors) + Len(Creditors) = 3

\* C7: no edge of results has from = to.
NoSelfEdges ==
    \A k \in 1..Len(sd.results) : sd.results[k].from # sd.results[k].to

\* C7 witness: a finished call that emitted edges to two different receivers.
NoSelfEdgesReached ==
    /\ epc = "done"
    /\ \E j, k \in 1..Len(sd.results) : sd.results[j].to # sd.results[k].to

\* C8: every edge amount is strictly positive and a whole multiple of 0.01.
EdgeAmountsRounded ==
    \A k \in 1..Len(sd.results) :
        sd.results[k].amount > 0 /\ sd.results[k].amount % Cent = 0

\* C8 witness: an edge was emitted for a giver whose balance is no multiple of 0.01.
EdgeAmountsRoundedReached ==
    /\ epc = "done"
    /\ \E i \in 1..Len(balances), k \in 1..Len(sd.results) :
          /\ balances[i].amount % Cent # 0
          /\ sd.results[k].from = balances[i].member

\* C9: a second call of simplifyDebts on the map the first call was given
\* returns the list the first call returned.
SecondCallIdentical ==
    epc = "done" => simplifyDebts(balances) = sd.results

\* C9 witness: the first call ran the loop three times and returned edges.
SecondCallIdenticalReached ==
    /\ epc = "done"
    /\ sd.giverIdx + sd.receiverIdx >= 3
    /\ sd.results # <<>>

ValidInput(expenses, members) ==
    /\ Len(members) > 0
    /\ \A i \in 1..Len(expenses) : expenses[i].amount > 0

\* C10 (as claimed): no expense with a non-positive amount is ever stored, and
\* no handler holds a plan computed from an empty roster or a non-positive amount.
InvalidInputRejected ==
    /\ \A i \in 1..Len(expenseDb) : expenseDb[i].amount > 0
    /\ \A r \in inflight : r.pc = "saveGroup" /\ r.kind \in {"post", "delete"}
          => ValidInput(r.allExpenses, r.groupData.members)

\* C11 (as claimed): for a non-empty roster and expenses of positive amounts,
\* every payer and every beneficiary has an entry in the map
\* calculateNetBalances returns, also one that is not in the roster, and the
\* entries sum to zero within 0.01.
OffRosterIncluded ==
    (/\ epc = "simplify"
     /\ argMembers # <<>>
     /\ \A i \in 1..Len(argExpenses) : argExpenses[i].amount > 0) =>
        /\ \A i \in 1..Len(argExpenses) :
              /\ HasKey(balances, argExpenses[i].paidBy)
              /\ \A k \in 1..Len(argExpenses[i].splitBetween) :
                    HasKey(balances, argExpenses[i].splitBetween[k])
        /\ Abs(SumAmounts(balances)) <= Eps

\* C12: the map calculateNetBalances returns holds one entry for every member
\* of the roster and no other entry.
OneEntryPerMember ==
    epc \in {"simplify", "loop", "done"} =>
        \A m \in Users :
            Cardinality({i \in 1..Len(balances) : balances[i].member = m})
                = IF Contains(argMembers, m) THEN 1 ELSE 0

\* C12 witness: a member who pays nothing and is named in no splitBetween of a
\* non-empty expense list has an entry, and it is zero.
OneEntryPerMemberReached ==
    /\ epc = "simplify"
    /\ argExpenses # <<>>
    /\ \E j \in 1..Len(balances) :
          /\ balances[j].amount = 0
          /\ \A i \in 1..Len(argExpenses) :
                /\ argExpenses[i].paidBy # balances[j].member
                /\ argExpenses[i].splitBetween # <<>>
                /\ ~Contains(argExpenses[i].splitBetween, balances[j].member)

\* The expense list with every empty splitBetween replaced by the roster.
WithFullRoster(expenses, groupMembers) ==
    [i \in 1..Len(expenses) |->
        IF expenses[i].splitBetween = <<>>
        THEN [expenses[i] EXCEPT !.splitBetween = groupMembers]
        ELSE expenses[i]]

\* C13: the map returned for a list of expenses is the map returned for the
\* list in which every empty splitBetween is replaced by the full roster.
EmptySplitIsFullRoster ==
    epc = "simplify" =>
        balances = calculateNetBalances(WithFullRoster(argExpenses, argMembers), argMembers)

\* C13 witness: an expense with an empty splitBetween was processed for a
\* roster of three and debited a member who paid nothing.
EmptySplitIsFullRosterReached ==
    /\ epc = "simplify"
    /\ Len(argMembers) = 3
    /\ Len(argExpenses) = 1
    /\ argExpenses[1].splitBetween = <<>>
    /\ argExpenses[1].amount > 0
    /\ \E j \in 1..Len(balances) :
          balances[j].member # argExpenses[1].paidBy /\ balances[j].amount < 0

\* C14: in every call of calculateNetBalances a handler makes (a create or a
\* delete that has fetched the expenses), involvedIds of every expense
\* processed has at least one element.
NoEmptyInvolved ==
    \A r \in inflight :
        (r.kind \in {"post", "delete"} /\ r.pc = "saveGroup") =>
            \A i \in 1..Len(r.allExpenses) :
                Len(involvedIdsOf(r.allExpenses[i], r.groupData.members)) > 0

\* C14 witness: a handler is about to call the engine on an expense with an
\* empty splitBetween while the stored roster has become empty (the last
\* member left after the handler loaded the group).
NoEmptyInvolvedReached ==
    /\ group.exists
    /\ group.members = <<>>
    /\ \E r \in inflight :
          /\ r.kind = "post" /\ r.pc = "saveGroup"
          /\ \E i \in 1..Len(r.allExpenses) : r.allExpenses[i].splitBetween = <<>>

AllWithinEps(list) == \A i \in 1..Len(list) : Abs(list[i].amount) <= Eps

\* C15: when simplifyDebts has left its loop, every remaining amount of the
\* givers is within 0.01 of zero, or every remaining amount of the receivers is.
NoUnmatchedPair ==
    epc = "done" => AllWithinEps(sd.givers) \/ AllWithinEps(sd.receivers)

\* C15 witness: the loop ran with both lists non-empty and stopped with the
\* givers exhausted and a receiver still more than 0.01 in credit.
NoUnmatchedPairReached ==
    /\ epc = "done"
    /\ sd.givers # <<>>
    /\ sd.giverIdx = Len(sd.givers)
    /\ sd.results # <<>>
    /\ ~AllWithinEps(sd.receivers)

\* C16 (as claimed): when simplifyDebts has matched a map (of expenses with
\* positive amounts) that does not sum to zero within 0.01 and returns with a
\* giver or a receiver left more than 0.01 from zero, it has reported a warning.
ResidualSurfaced ==
    (/\ epc = "done"
     /\ \A i \in 1..Len(argExpenses) : argExpenses[i].amount > 0
     /\ sd.results # <<>>
     /\ Abs(SumAmounts(balances)) > Eps
     /\ ~(AllWithinEps(sd.givers) /\ AllWithinEps(sd.receivers))) =>
        sd.warnings # <<>>

\* The input of the example: a roster of three and one expense of 300.00,
\* paid by the first member, with an empty splitBetween.
ThreeWaySplit ==
    /\ Len(argMembers) = 3
    /\ argExpenses = <<[amount |-> 30000 * Cent, paidBy |-> argMembers[1],
                        splitBetween |-> <<>>]>>

\* C17: for roster [A, B, C] and the one expense {300, A, []} the map is
\* {A: +200, B: -100, C: -100} and simplifyDebts returns [B->A 100, C->A 100],
\* in that order.
ExampleThreeWaySplit ==
    ThreeWaySplit =>
        /\ epc \in {"simplify", "loop", "done"} =>
              balances = <<[member |-> argMembers[1], amount |-> 20000 * Cent],
                           [member |-> argMembers[2], amount |-> -10000 * Cent],
                           [member |-> argMembers[3], amount |-> -10000 * Cent]>>
        /\ epc = "done" =>
              sd.results = <<[from |-> argMembers[2], to |-> argMembers[1],
                              amount |-> 10000 * Cent],
                             [from |-> argMembers[3], to |-> argMembers[1],
                              amount |-> 10000 * Cent]>>

\* C17 witness: the call on the example's input, with the roster in the order
\* [3, 1, 2], has returned two edges.
ExampleThreeWaySplitReached ==
    /\ ThreeWaySplit
    /\ argMembers = <<3, 1, 2>>
    /\ epc = "done"
    /\ Len(sd.results) = 2

\* C18: an empty expense list, a roster of one member, or a map whose entries
\* are all within 0.01 of zero yields an empty list of edges.
DegenerateInputsYieldNoEdges ==
    (/\ epc = "done"
     /\ \/ argExpenses = <<>>
        \/ Len(argMembers) = 1
        \/ AllWithinEps(balances)) =>
        sd.results = <<>>

\* C18 witness: the call has returned for a roster of one member whose
\* balance is more than 0.01 from zero.
DegenerateInputsYieldNoEdgesReached ==
    /\ epc = "done"
    /\ Len(argMembers) = 1
    /\ ~AllWithinEps(balances)
    /\ sd.results = <<>>

\* A step that leaves the arguments of the engine as they were passed.
PureStep ==
    /\ argExpenses' = argExpenses
    /\ argMembers' = argMembers
    /\ epc = "simplify" => (sd'.netBalances = balances /\ balances' = balances)
    /\ epc = "loop" => (sd'.netBalances = sd.netBalances /\ balances' = balances)

\* C19: no step of calculateNetBalances changes the expense list or the
\* roster it was given, and no step of simplifyDebts changes the map it was given.
EngineIsPure == [][PureStep]_vars

\* C19 witness: simplifyDebts has returned after changing the amount of its
\* own givers[0] record, and the entry of that member in the map it was
\* given is as calculateNetBalances returned it.
EngineIsPureReached ==
    /\ epc = "done"
    /\ sd.results # <<>>
    /\ sd.givers[1].amount # Get(balances, sd.givers[1].member)
    /\ balances = calculateNetBalances(argExpenses, argMembers)

\* C20 (as claimed): when the plan has been computed again after a settlement
\* was recorded for one of its debts X->Y with that debt's full amount, the
\* new plan has no edge from X to Y.
SettledDebtZeroedOut ==
    (epc = "done" /\ settled # NoEdge) =>
        ~\E k \in 1..Len(sd.results) :
            sd.results[k].from = settled.from /\ sd.results[k].to = settled.to

\* The share of one expense: amount / |involved|.
ShareOf(expense, groupMembers) ==
    expense.amount \div Len(involvedIdsOf(expense, groupMembers))

\* C21: for a single expense whose payer is a member and one of the involved,
\* the payer's entry is amount - amount/|involved|, the entry of every other
\* involved member is -amount/|involved| and every other entry is 0; for
\* roster [A, B] and 100 paid by A for [A, B] the plan is the one edge B->A 50.
PayerAlsoBeneficiary ==
    (/\ epc \in {"simplify", "loop", "done"}
     /\ Len(argExpenses) = 1
     /\ Contains(argMembers, argExpenses[1].paidBy)
     /\ Contains(involvedIdsOf(argExpenses[1], argMembers), argExpenses[1].paidBy)) =>
        /\ \A i \in 1..Len(balances) :
              balances[i].amount =
                  IF balances[i].member = argExpenses[1].paidBy
                  THEN argExpenses[1].amount - ShareOf(argExpenses[1], argMembers)
                  ELSE IF Contains(involvedIdsOf(argExpenses[1], argMembers), balances[i].member)
                       THEN -ShareOf(argExpenses[1], argMembers)
                       ELSE 0
        /\ (/\ epc = "done"
            /\ Len(argMembers) = 2
            /\ argExpenses[1].amount = 10000 * Cent
            /\ argExpenses[1].paidBy = argMembers[1]
            /\ argExpenses[1].splitBetween \in {<<argMembers[1], argMembers[2]>>,
                                                <<argMembers[2], argMembers[1]>>}) =>
               sd.results = <<[from |-> argMembers[2], to |-> argMembers[1],
                               amount |-> 5000 * Cent]>>

\* C21 witness: the example: roster [1, 2], 100.00 paid by 1 for [1, 2], one
\* edge returned.
PayerAlsoBeneficiaryReached ==
    /\ epc = "done"
    /\ argMembers = <<1, 2>>
    /\ argExpenses = <<[amount |-> 10000 * Cent, paidBy |-> 1, splitBetween |-> <<1, 2>>]>>
    /\ Len(sd.results) = 1

\* C22: an entry within 0.01 of zero is in neither givers nor receivers and
\* its member is neither from nor to of an edge.
SettledExcluded ==
    epc \in {"loop", "done"} =>
        \A i \in 1..Len(balances) :
            Abs(balances[i].amount) <= Eps =>
                /\ \A k \in 1..Len(sd.givers) : sd.givers[k].member # balances[i].member
                /\ \A k \in 1..Len(sd.receivers) : sd.receivers[k].member # balances[i].member
                /\ \A k \in 1..Len(sd.results) :
                      /\ sd.results[k].from # balances[i].member
                      /\ sd.results[k].to # balances[i].member

\* C22 witness: edges were returned for a map that holds an entry of exactly
\* -0.01.
SettledExcludedReached ==
    /\ epc = "done"
    /\ sd.results # <<>>
    /\ \E i \in 1..Len(balances) : balances[i].amount = -Eps

\* The amount a member has in the map calculateNetBalances returned.
Original(m) == Get(balances, m)

\* The edges are in the order of the sort: from by ascending original
\* balance, to by descending original balance, and the first edge joins the
\* lowest entry of the map to the highest.
InSortOrder ==
    /\ \A j, k \in 1..Len(sd.results) : j < k =>
          /\ Original(sd.results[j].from) <= Original(sd.results[k].from)
          /\ Original(sd.results[j].to) >= Original(sd.results[k].to)
    /\ sd.results # <<>> =>
          \A i \in 1..Len(balances) :
              /\ Original(sd.results[1].from) <= balances[i].amount
              /\ Original(sd.results[1].to) >= balances[i].amount

\* C23: in every step of the matching loop neither index moves back, and
\* the list of edges it leaves is in the order of the sort.
MatchingFollowsSort ==
    [][epc = "loop" =>
          /\ sd'.giverIdx >= sd.giverIdx
          /\ sd'.receiverIdx >= sd.receiverIdx
          /\ InSortOrder']_vars

\* C23 witness: two edges were returned whose from members have different
\* original balances.
MatchingFollowsSortReached ==
    /\ epc = "done"
    /\ \E j, k \in 1..Len(sd.results) :
          Original(sd.results[j].from) < Original(sd.results[k].from)

\* C24 (as claimed): every iteration of the matching loop, on any map,
\* moves giverIdx or receiverIdx forward.
EveryIterationAdvances ==
    [][(epc = "loop" /\ LoopCondition(sd)) =>
          (sd'.giverIdx > sd.giverIdx \/ sd'.receiverIdx > sd.receiverIdx)]_vars

\* C25: when a create and then the delete of the same expense have both been
\* answered with success, with no other request since the create arrived, and
\* the plan stored before the create was the plan of the expenses and the
\* roster stored then, the stored plan is again that plan.
CreateThenDeleteRestores ==
    (prev.phase = "undone" /\ prev.debts = Plan(prev.expenses, prev.members)) =>
        group.debts = prev.debts

\* C25 witness: an expense was created and deleted on top of a stored
\* expense whose plan is not empty.
CreateThenDeleteRestoresReached ==
    /\ prev.phase = "undone"
    /\ prev.debts # <<>>
    /\ prev.debts = Plan(prev.expenses, prev.members)
    /\ expenseDb = prev.expenses

\* C26: every edge goes from a member whose original balance is below -0.01
\* to one whose original balance is above +0.01; what has been settled out
\* of a giver (its original balance minus what remains of it) is between 0
\* and the magnitude of its original balance, and likewise for a receiver.
NoOverpayment ==
    epc \in {"loop", "done"} =>
        /\ \A k \in 1..Len(sd.results) :
              /\ Original(sd.results[k].from) < -Eps
              /\ Original(sd.results[k].to) > Eps
        /\ \A k \in 1..Len(sd.givers) :
              /\ Original(sd.givers[k].member) <= sd.givers[k].amount
              /\ sd.givers[k].amount <= 0
        /\ \A k \in 1..Len(sd.receivers) :
              /\ sd.receivers[k].amount <= Original(sd.receivers[k].member)
              /\ sd.receivers[k].amount >= 0

\* C26 witness: a receiver was paid by two givers and nothing remains of it.
NoOverpaymentReached ==
    /\ epc = "done"
    /\ Len(sd.results) = 2
    /\ sd.results[1].to = sd.results[2].to
    /\ sd.receivers[1].amount = 0

\* Every create or delete that has passed its membership check was sent by a
\* user who is in the members the handler loaded.
MutatorsAreMembers ==
    \A r \in inflight :
        (r.kind \in {"post", "delete"} /\ r.pc \in {"save", "deleteOne", "find", "saveGroup"})
            => Contains(r.groupData.members, r.user)

\* C27: no create or delete of a user who is not in the members the handler
\* loads gets past the membership check, and the step that answers such a
\* request with 401 leaves the stored expenses and the group as they were.
NonMemberRejected ==
    [][/\ MutatorsAreMembers'
       /\ (lastResp' # lastResp /\ lastResp'.kind \in {"post", "delete"}
                                /\ lastResp'.status = 401)
             => (expenseDb' = expenseDb /\ group' = group)]_vars

\* C27 witness: a delete was answered 401 and the expense it named is stored.
NonMemberRejectedReached ==
    /\ lastResp.kind = "delete"
    /\ lastResp.status = 401
    /\ Len(expenseDb) = 1
    /\ ~Contains(group.members, NumAccounts)

\* C28 (as claimed): when a create or delete that overlapped no other request
\* has ended, with success or with 500, and nothing is in flight, the stored
\* plan is the plan of the stored expenses (of positive amounts) and members.
AllOrNothing ==
    (/\ inflight = {}
     /\ lastResp.kind \in {"post", "delete"}
     /\ lastResp.status \in {200, 201, 500}
     /\ lastResp.solo
     /\ \A i \in 1..Len(expenseDb) : expenseDb[i].amount > 0) =>
        group.debts = PlanOfStore

\* The rearrangements of a list.
Rearrangements(list) ==
    {[i \in 1..Len(list) |-> list[f[i]]] :
        f \in {g \in [1..Len(list) -> 1..Len(list)] : IsInjective(g)}}

\* C29: the map calculateNetBalances returned for a list of expenses is the
\* map it returns for every rearrangement of that list.
OrderIndependent ==
    epc = "simplify" =>
        \A permuted \in Rearrangements(argExpenses) :
            calculateNetBalances(permuted, argMembers) = balances

\* C29 witness: a map was returned for two expenses with different payers,
\* both members, and different beneficiaries.
OrderIndependentReached ==
    /\ epc = "simplify"
    /\ Len(argExpenses) = 2
    /\ argExpenses[1].paidBy # argExpenses[2].paidBy
    /\ Contains(argMembers, argExpenses[1].paidBy)
    /\ Contains(argMembers, argExpenses[2].paidBy)
    /\ argExpenses[1].splitBetween # argExpenses[2].splitBetween
    /\ argExpenses[1].amount # argExpenses[2].amount

\* C30 (as claimed): when the last request has been answered, having
\* overlapped no other, the stored members list names nobody twice, and when
\* it is not empty the stored creator is one of the members.
RosterWellFormed ==
    (group.exists /\ inflight = {} /\ lastResp.solo) =>
        /\ IsInjective(group.members)
        /\ group.members # <<>> => Contains(group.members, group.creator)

====
